---- MODULE Spec2Model ----
(***************************************************************************)
(* The video-editing pipeline of orchestrator/graph_builder.py: the stage  *)
(* graph declared by build_pipeline_graph, the three conditional-edge      *)
(* functions, and execute_pipeline with its exception handler.             *)
(*                                                                         *)
(* The graph is run in supersteps: the nodes triggered by the previous     *)
(* superstep run (in any interleaving), each node writes its outgoing      *)
(* edges when it finishes, and the next superstep starts when every node   *)
(* of the current one is done.  The pipeline state is one mutable record   *)
(* that the nodes and the conditional-edge functions update in place.      *)
(***************************************************************************)
EXTENDS Integers, Sequences, FiniteSets, TLC

VARIABLES
    pc,            \* position of execute_pipeline
    task,          \* per node: its position in the current superstep
    triggered,     \* nodes triggered for the next superstep
    state,         \* the PipelineState record
    started,       \* per node: number of times its body started
    finished,      \* per node: number of times its body returned
    succeeded,     \* nodes whose body returned success
    failed,        \* nodes whose body returned a failure value
    raised,        \* an exception left app.invoke
    errorRecorded, \* an error was recorded by a stage, a guard or the handler
    route,         \* per guarded node: the target its guard returned
    guardSawError  \* per guarded node: the guard found status == error

\* The project database (Database: tables projects and pipeline_stages)
VARIABLES
    projects,      \* table projects: the rows
    ledger,        \* table pipeline_stages as the connection sees it
    nextId,        \* the next AUTOINCREMENT id of pipeline_stages
    clock,         \* CURRENT_TIMESTAMP
    open,          \* stage invocations whose start is logged and end is not
    stagesRead     \* the rows the last get_project_stages call returned

\* The checkpoint files, the connection's open transaction, return values
VARIABLES
    files,         \* per project: the contents of state/pipeline_state.json
    lastSaved,     \* per project: the state of the last save that succeeded
    pending,       \* rows inserted in the connection's uncommitted transaction
    result         \* the value the last call returned

\* The project directories and the construction of the Database singleton
VARIABLES
    dirs,          \* the projects that have a directory on disk
    singleton      \* the Database class, its instance, the constructing threads

pvars == <<pc, task, triggered, state, started, finished, succeeded, failed,
           raised, errorRecorded, route, guardSawError>>

dvars == <<projects, ledger, nextId, clock, open, stagesRead>>

svars == <<files, lastSaved, pending, result>>

xvars == <<dirs, singleton>>

vars == <<pvars, dvars, svars, xvars>>

----------------------------------------------------------------------------
(* The graph: build_pipeline_graph *)

Nodes == {"intake", "frame_extractor", "cursor_detector", "audio_agent",
          "vision_description", "analysis_agent", "script_planner",
          "render", "output"}

EntryPoint == "intake"

GuardedNodes == {"cursor_detector", "vision_description", "script_planner"}

\* add_edge(a, b): the unconditional successors of a node (output -> END)
Edges(n) ==
    CASE n = "intake"          -> {"frame_extractor"}
      [] n = "frame_extractor" -> {"cursor_detector", "audio_agent"}
      [] n = "audio_agent"     -> {"vision_description"}
      [] n = "analysis_agent"  -> {"script_planner"}
      [] n = "render"          -> {"output"}
      [] OTHER                 -> {}

\* add_conditional_edges(n, f, mapping): the declared targets of each guard
GuardTargets(n) ==
    CASE n = "cursor_detector"    -> {"vision_description", "output"}
      [] n = "vision_description" -> {"analysis_agent", "output"}
      [] n = "script_planner"     -> {"render", "output"}
      [] OTHER                    -> {}

----------------------------------------------------------------------------
(* The pipeline state *)

ArtifactValues == {"absent", "empty", "present"}

\* Python truthiness of state.get(key): None and the empty list are falsy
Falsy(a) == a \in {"absent", "empty"}

Range(s) == {s[i] : i \in 1..Len(s)}

MsgFrames    == "Frame extraction failed"
MsgVision    == "Vision analysis failed"
MsgEditPlan  == "Edit plan missing, skipping render"
MsgException == "Pipeline execution error"

\* the message a failing stage records: it embeds the stage name
StageFailureMsg(n) == n

\* create_initial_state
InitialState ==
    [status            |-> "created",
     frames            |-> "absent",
     cursor_events     |-> "absent",
     transcript        |-> "absent",
     frame_descriptions|-> "absent",
     event_timeline    |-> "absent",
     edit_plan         |-> "absent",
     final_video_path  |-> "absent",
     processing_time   |-> "absent",
     errors            |-> <<>>,
     warnings          |-> <<>>,
     completed_stages  |-> <<>>]

\* a mark_stage_complete that appends whatever the list holds
mark_stage_complete_always(s, n) ==
    [s EXCEPT !.completed_stages = Append(@, n)]

\* mark_stage_complete: append unless already present
mark_stage_complete(s, n) ==
    IF n \in Range(s.completed_stages) THEN s
    ELSE [s EXCEPT !.completed_stages = Append(@, n)]

\* record_error: append to errors, set status = error
record_error(s, msg) ==
    [s EXCEPT !.errors = Append(@, msg), !.status = "error"]

\* the artifact each stage writes on success, and the values it may take
ArtifactOf(n) ==
    CASE n = "frame_extractor"    -> "frames"
      [] n = "cursor_detector"    -> "cursor_events"
      [] n = "audio_agent"        -> "transcript"
      [] n = "vision_description" -> "frame_descriptions"
      [] n = "analysis_agent"     -> "event_timeline"
      [] n = "script_planner"     -> "edit_plan"
      [] n = "render"             -> "final_video_path"
      [] OTHER                    -> "none"

ResultsOf(n) ==
    CASE n \in {"frame_extractor", "vision_description", "script_planner"}
              -> ArtifactValues
      [] n = "analysis_agent" -> {"absent", "present"}
      [] OTHER -> {"present"}

\* a stage body that succeeds: writes its artifact, marks itself complete
StageSuccess(s, n, v) ==
    LET s1 == CASE n = "intake" ->
                     [s EXCEPT !.status = IF @ = "created" THEN "running" ELSE @]
                [] n = "output" ->
                     [s EXCEPT !.processing_time = "present",
                               !.status = IF @ = "error" THEN @ ELSE "complete"]
                [] OTHER -> [s EXCEPT ![ArtifactOf(n)] = v]
    IN  mark_stage_complete(s1, n)

\* a stage body that fails: the failure is a value recorded in the state
StageFailure(s, n) == record_error(s, StageFailureMsg(n))

----------------------------------------------------------------------------
(* The conditional-edge functions *)

\* A guard returns its target; "records" tells whether it took the branch
\* that writes to the state (an error for the first two, a warning for the
\* third) before returning.

should_continue_after_parallel_nocheck(s) ==
    IF s.status = "error" THEN [target |-> "output", records |-> FALSE]
    ELSE [target |-> "vision_description", records |-> FALSE]

should_continue_after_parallel(s) ==
    IF s.status = "error" THEN [target |-> "output", records |-> FALSE]
    ELSE IF Falsy(s.frames) THEN [target |-> "output", records |-> TRUE]
    ELSE [target |-> "vision_description", records |-> FALSE]

should_continue_after_vision_nocheck(s) ==
    IF s.status = "error" THEN [target |-> "output", records |-> FALSE]
    ELSE [target |-> "analysis_agent", records |-> FALSE]

should_continue_after_vision(s) ==
    IF s.status = "error" THEN [target |-> "output", records |-> FALSE]
    ELSE IF Falsy(s.frame_descriptions)
         THEN [target |-> "output", records |-> TRUE]
    ELSE [target |-> "analysis_agent", records |-> FALSE]

should_render_nocheck(s) ==
    IF s.status = "error" THEN [target |-> "output", records |-> FALSE]
    ELSE [target |-> "render", records |-> FALSE]

should_render(s) ==
    IF s.status = "error" THEN [target |-> "output", records |-> FALSE]
    ELSE IF Falsy(s.edit_plan) THEN [target |-> "output", records |-> TRUE]
    ELSE [target |-> "render", records |-> FALSE]

AppendErrorReplaces(s, msg) == [s EXCEPT !.errors = <<msg>>]

AppendErrorDropped(s, msg) == s

\* state['errors'].append(msg)
AppendError(s, msg) == [s EXCEPT !.errors = Append(@, msg)]

\* a missing edit plan recorded as an error instead of a warning
AppendWarningAsError(s, msg) ==
    [s EXCEPT !.errors = Append(@, msg), !.status = "error"]

\* state['warnings'].append(msg)
AppendWarning(s, msg) == [s EXCEPT !.warnings = Append(@, msg)]

SetStatusErrorSkipped(s) == s

\* state['status'] = 'error'
SetStatusError(s) == [s EXCEPT !.status = "error"]

----------------------------------------------------------------------------
(* Execution *)

Zero == [n \in Nodes |-> 0]

ProjectIds == {"p1", "p2"}

\* no checkpoint file
NoFile == <<>>

\* None, the value load_checkpoint returns when there is no checkpoint
None == [none |-> TRUE]

\* no call has returned in the last step
NoResult == [op |-> "none"]

\* the threads that construct Database()
Threads == {"t1", "t2", "t3"}

\* the Database class before any construction: _instance is None (0), the
\* lock is free, the instance has no attribute yet; no thread has started
NoDatabase ==
    [at          |-> [th \in Threads |-> "idle"],
     instance    |-> 0,
     lock        |-> "free",
     got         |-> [th \in Threads |-> 0],
     initialized |-> FALSE,
     local       |-> 0,
     inits       |-> 0,
     connection  |-> [th \in Threads |-> 0]]

\* no get_project_stages call has returned since the last write
NoRead == [project |-> "none", ids |-> <<>>]

Init ==
    /\ pc = "created"
    /\ task = [n \in Nodes |-> "none"]
    /\ triggered = {}
    /\ state = InitialState
    /\ started = Zero
    /\ finished = Zero
    /\ succeeded = {}
    /\ failed = {}
    /\ raised = FALSE
    /\ errorRecorded = FALSE
    /\ route = [n \in GuardedNodes |-> "none"]
    /\ guardSawError = [n \in GuardedNodes |-> FALSE]
    /\ projects = {}
    /\ ledger = <<>>
    /\ nextId = 1
    /\ clock = 0
    /\ open = {}
    /\ stagesRead = NoRead
    /\ files = [p \in ProjectIds |-> NoFile]
    /\ lastSaved = [p \in ProjectIds |-> None]
    /\ pending = 0
    /\ result = NoResult
    /\ dirs = {}
    /\ singleton = NoDatabase

SuperstepCompleteAny == \E n \in Nodes : task[n] = "done"

Active == {n \in Nodes : task[n] # "none"}

\* the superstep is over when every node that runs in it is done
SuperstepComplete == \A n \in Active : task[n] = "done"

\* app.invoke(initial_state): the entry point is the first superstep
Invoke ==
    /\ pc = "created"
    /\ pc' = "invoke"
    /\ task' = [task EXCEPT ![EntryPoint] = "ready"]
    /\ UNCHANGED <<dvars, svars, xvars, triggered, state, started, finished, succeeded, failed,
                   raised, errorRecorded, route, guardSawError>>

\* a triggered node starts its body
StartStage(n) ==
    /\ pc = "invoke"
    /\ task[n] = "ready"
    /\ task' = [task EXCEPT ![n] = "running"]
    /\ started' = [started EXCEPT ![n] = @ + 1]
    /\ UNCHANGED <<dvars, svars, xvars, pc, triggered, state, finished, succeeded, failed,
                   raised, errorRecorded, route, guardSawError>>

\* the body returned: a guarded node evaluates its guard next, any other
\* node writes its unconditional edges
AfterBody(n) ==
    /\ finished' = [finished EXCEPT ![n] = @ + 1]
    /\ IF n \in GuardedNodes
       THEN /\ task' = [task EXCEPT ![n] = "guard"]
            /\ UNCHANGED triggered
       ELSE /\ task' = [task EXCEPT ![n] = "done"]
            /\ triggered' = triggered \cup Edges(n)

StageSucceeds(n) ==
    /\ pc = "invoke"
    /\ task[n] = "running"
    /\ \E v \in ResultsOf(n) : state' = StageSuccess(state, n, v)
    /\ succeeded' = succeeded \cup {n}
    /\ AfterBody(n)
    /\ UNCHANGED <<dvars, svars, xvars, pc, started, failed, raised, errorRecorded, route,
                   guardSawError>>

StageFails(n) ==
    /\ pc = "invoke"
    /\ task[n] = "running"
    /\ n # "output"
    /\ state' = StageFailure(state, n)
    /\ failed' = failed \cup {n}
    /\ errorRecorded' = TRUE
    /\ AfterBody(n)
    /\ UNCHANGED <<dvars, svars, xvars, pc, started, succeeded, raised, route, guardSawError>>

ExceptionTargetUncaught == "escaped"

\* try / except Exception around app.invoke: the handler catches
ExceptionTarget == "except"

\* an exception leaves the body and app.invoke: control goes to the handler
StageRaises(n) ==
    /\ pc = "invoke"
    /\ task[n] = "running"
    /\ pc' = ExceptionTarget
    /\ raised' = TRUE
    /\ UNCHANGED <<dvars, svars, xvars, task, triggered, state, started, finished, succeeded,
                   failed, errorRecorded, route, guardSawError>>

\* the guard returned target t: the node is done and t is triggered
Routed(n, t) ==
    /\ task' = [task EXCEPT ![n] = "done"]
    /\ triggered' = triggered \cup ({t} \cap GuardTargets(n))
    /\ route' = [route EXCEPT ![n] = t]

\* should_continue_after_parallel, lines 14-21 and line 25
GuardAfterParallel ==
    LET n == "cursor_detector" IN
    /\ pc = "invoke"
    /\ task[n] = "guard"
    /\ guardSawError' = [guardSawError EXCEPT ![n] = (state.status = "error")]
    /\ IF should_continue_after_parallel(state).records
       THEN /\ state' = AppendError(state, MsgFrames)
            /\ errorRecorded' = TRUE
            /\ task' = [task EXCEPT ![n] = "guard_status"]
            /\ UNCHANGED <<triggered, route>>
       ELSE /\ Routed(n, should_continue_after_parallel(state).target)
            /\ UNCHANGED <<state, errorRecorded>>
    /\ UNCHANGED <<dvars, svars, xvars, pc, started, finished, succeeded, failed, raised>>

\* should_continue_after_parallel, lines 22-23
GuardAfterParallelStatus ==
    LET n == "cursor_detector" IN
    /\ pc = "invoke"
    /\ task[n] = "guard_status"
    /\ state' = SetStatusError(state)
    /\ Routed(n, "output")
    /\ UNCHANGED <<dvars, svars, xvars, pc, started, finished, succeeded, failed, raised,
                   errorRecorded, guardSawError>>

\* should_continue_after_vision, lines 32-39 and line 43
GuardAfterVision ==
    LET n == "vision_description" IN
    /\ pc = "invoke"
    /\ task[n] = "guard"
    /\ guardSawError' = [guardSawError EXCEPT ![n] = (state.status = "error")]
    /\ IF should_continue_after_vision(state).records
       THEN /\ state' = AppendError(state, MsgVision)
            /\ errorRecorded' = TRUE
            /\ task' = [task EXCEPT ![n] = "guard_status"]
            /\ UNCHANGED <<triggered, route>>
       ELSE /\ Routed(n, should_continue_after_vision(state).target)
            /\ UNCHANGED <<state, errorRecorded>>
    /\ UNCHANGED <<dvars, svars, xvars, pc, started, finished, succeeded, failed, raised>>

\* should_continue_after_vision, lines 40-41
GuardAfterVisionStatus ==
    LET n == "vision_description" IN
    /\ pc = "invoke"
    /\ task[n] = "guard_status"
    /\ state' = SetStatusError(state)
    /\ Routed(n, "output")
    /\ UNCHANGED <<dvars, svars, xvars, pc, started, finished, succeeded, failed, raised,
                   errorRecorded, guardSawError>>

\* should_render
GuardShouldRender ==
    LET n == "script_planner" IN
    /\ pc = "invoke"
    /\ task[n] = "guard"
    /\ guardSawError' = [guardSawError EXCEPT ![n] = (state.status = "error")]
    /\ state' = IF should_render(state).records
                THEN AppendWarning(state, MsgEditPlan)
                ELSE state
    /\ Routed(n, should_render(state).target)
    /\ UNCHANGED <<dvars, svars, xvars, pc, started, finished, succeeded, failed, raised,
                   errorRecorded>>

\* every node of the superstep is done: the triggered nodes run next
NextSuperstep ==
    /\ pc = "invoke"
    /\ Active # {}
    /\ SuperstepComplete
    /\ triggered # {}
    /\ task' = [n \in Nodes |-> IF n \in triggered THEN "ready" ELSE "none"]
    /\ triggered' = {}
    /\ UNCHANGED <<dvars, svars, xvars, pc, state, started, finished, succeeded, failed, raised,
                   errorRecorded, route, guardSawError>>

\* nothing is triggered any more: app.invoke returns, lines 191-194
InvokeReturns ==
    /\ pc = "invoke"
    /\ Active # {}
    /\ SuperstepComplete
    /\ triggered = {}
    /\ pc' = "returned"
    /\ UNCHANGED <<dvars, svars, xvars, task, triggered, state, started, finished, succeeded,
                   failed, raised, errorRecorded, route, guardSawError>>

\* The dict that the handler calls initial_state.  app.invoke(initial_state)
\* either ran the graph on that dict itself, or on a shallow copy of it: in
\* a shallow copy the keys assigned during the run (status, the artifacts,
\* processing_time) are not in the caller's dict, while the three list
\* objects, which are appended to in place, are shared with it.
CallerDict(s) ==
    {s, [InitialState EXCEPT !.errors = s.errors,
                             !.warnings = s.warnings,
                             !.completed_stages = s.completed_stages]}

\* except Exception, line 198
HandlerSetStatus ==
    /\ pc = "except"
    /\ \E d \in CallerDict(state) : state' = SetStatusError(d)
    /\ pc' = "except_append"
    /\ UNCHANGED <<dvars, svars, xvars, task, triggered, started, finished, succeeded, failed,
                   raised, errorRecorded, route, guardSawError>>

\* except Exception, lines 199-200
HandlerAppendReturn ==
    /\ pc = "except_append"
    /\ state' = AppendError(state, MsgException)
    /\ errorRecorded' = TRUE
    /\ pc' = "returned"
    /\ UNCHANGED <<dvars, svars, xvars, task, triggered, started, finished, succeeded, failed,
                   raised, route, guardSawError>>

Start    == \E n \in Nodes : StartStage(n)
Succeed  == \E n \in Nodes : StageSucceeds(n)
Fail     == \E n \in Nodes : StageFails(n)
Raise    == \E n \in Nodes : StageRaises(n)

Next ==
    \/ Invoke
    \/ Start
    \/ Succeed
    \/ Fail
    \/ Raise
    \/ GuardAfterParallel
    \/ GuardAfterParallelStatus
    \/ GuardAfterVision
    \/ GuardAfterVisionStatus
    \/ GuardShouldRender
    \/ NextSuperstep
    \/ InvokeReturns
    \/ HandlerSetStatus
    \/ HandlerAppendReturn

Spec == Init /\ [][Next]_vars

----------------------------------------------------------------------------
(* Properties of the pipeline run *)

Returned == pc = "returned"

Executed(n) == started[n] > 0

\* a precedes b in the sequence seq
Precedes(seq, a, b) ==
    \E i, j \in 1..Len(seq) : i < j /\ seq[i] = a /\ seq[j] = b

\* C1: in every run the output stage executes exactly once: output is never
\* started twice, and when app.invoke has returned normally it has been
\* started once.  (The runs that end in the exception handler, where output
\* is started zero times, are the subject of C9.)
C1_OutputExactlyOnce ==
    /\ started["output"] <= 1
    /\ (Returned /\ ~raised) => started["output"] = 1

\* C2: once status is error, every guard that returns afterwards returns
\* output, and no stage body other than output starts afterwards.
C2_NothingRunsAfterError ==
    [][state.status = "error" =>
         /\ \A n \in Nodes \ {"output"} : started'[n] = started[n]
         /\ \A n \in GuardedNodes :
                route'[n] # route[n] => route'[n] = "output"]_vars

\* C3: vision_description has started only if cursor_detector and
\* audio_agent have both returned (with success or failure) and the
\* cursor_detector guard has returned.
C3_JoinWaitsForBoth ==
    (Executed("vision_description") \/ task["vision_description"] = "ready") =>
        /\ finished["cursor_detector"] > 0
        /\ finished["audio_agent"] > 0
        /\ route["cursor_detector"] # "none"

C3_Witness ==
    /\ task["vision_description"] = "running"
    /\ "audio_agent" \in failed
    /\ "cursor_detector" \in succeeded

\* C4: when an error was recorded during the run (by a stage, a guard or
\* the exception handler), the returned state has status error and a
\* non-empty errors sequence.
C4_RecordedErrorIsFinal ==
    (Returned /\ errorRecorded) =>
        state.status = "error" /\ state.errors # <<>>

C4_Witness ==
    /\ Returned
    /\ ~raised
    /\ failed = {}
    /\ errorRecorded
    /\ "output" \in succeeded

\* frame extraction returned successfully with no frames
ZeroFrames == "frame_extractor" \in succeeded /\ state.frames = "empty"

\* C5 as stated: with zero frames, when app.invoke has returned normally,
\* the cursor_detector guard returned output, status is error, errors
\* contains the frame-extraction-failure message, and script_planner and
\* render did not execute.
C5_ZeroFramesAsStated ==
    (Returned /\ ZeroFrames /\ ~raised) =>
        /\ route["cursor_detector"] = "output"
        /\ state.status = "error"
        /\ MsgFrames \in Range(state.errors)
        /\ ~Executed("script_planner")
        /\ ~Executed("render")

\* C5 amended: with zero frames the cursor_detector guard returns output,
\* script_planner and render never execute, the returned state has status
\* error and non-empty errors, and errors contains the
\* frame-extraction-failure message when status was not already error at
\* the time the guard was evaluated.
C5_ZeroFrames ==
    ZeroFrames =>
        /\ route["cursor_detector"] \in {"none", "output"}
        /\ ~Executed("script_planner")
        /\ ~Executed("render")
        /\ Returned => state.status = "error" /\ state.errors # <<>>
        /\ (route["cursor_detector"] = "output"
              /\ ~guardSawError["cursor_detector"])
             => MsgFrames \in Range(state.errors)

C5_Witness ==
    /\ Returned
    /\ ZeroFrames
    /\ route["cursor_detector"] = "output"
    /\ MsgFrames \in Range(state.errors)
    /\ Executed("vision_description")

\* every stage that ran succeeded, but script_planner left edit_plan absent
NoEditPlanOnly ==
    /\ "script_planner" \in succeeded
    /\ Falsy(state.edit_plan)
    /\ failed = {}
    /\ ~raised

\* C6: when all stages succeed but script_planner leaves edit_plan absent,
\* status is never error and is complete at the end, render never executes,
\* final_video_path stays absent, and once should_render has returned
\* (output) warnings contains the edit-plan-missing notice.
C6_MissingEditPlanIsSoft ==
    NoEditPlanOnly =>
        /\ state.status # "error"
        /\ ~Executed("render")
        /\ state.final_video_path = "absent"
        /\ route["script_planner"] # "none" =>
              /\ route["script_planner"] = "output"
              /\ MsgEditPlan \in Range(state.warnings)
        /\ Returned =>
              /\ state.status = "complete"
              /\ MsgEditPlan \in Range(state.warnings)

C6_Witness ==
    /\ Returned
    /\ NoEditPlanOnly
    /\ state.status = "complete"
    /\ state.warnings = <<MsgEditPlan>>

\* C7: when render executed successfully, the returned completed_stages
\* contains the nine stages, each before the next one of the pipeline, the
\* order of cursor_detector and audio_agent being free.
C7_CompletedStagesInOrder ==
    (Returned /\ "render" \in succeeded) =>
        LET cs == state.completed_stages IN
        /\ Nodes \subseteq Range(cs)
        /\ Precedes(cs, "intake", "frame_extractor")
        /\ Precedes(cs, "frame_extractor", "cursor_detector")
        /\ Precedes(cs, "frame_extractor", "audio_agent")
        /\ Precedes(cs, "cursor_detector", "vision_description")
        /\ Precedes(cs, "audio_agent", "vision_description")
        /\ Precedes(cs, "vision_description", "analysis_agent")
        /\ Precedes(cs, "analysis_agent", "script_planner")
        /\ Precedes(cs, "script_planner", "render")
        /\ Precedes(cs, "render", "output")

\* C8: in every reachable state, also inside the guards and inside the
\* exception handler, status == error implies that errors is non-empty.
C8_ErrorStatusHasErrors ==
    state.status = "error" => state.errors # <<>>

\* C9: every returned state has passed through the output stage, and
\* status is complete only if output has executed.
C9_ReturnedThroughOutput ==
    /\ Returned => "output" \in succeeded
    /\ state.status = "complete" => "output" \in succeeded

\* the guard of n was evaluated while the artifact it needs was missing
MissingArtifact ==
    \/ route["cursor_detector"] # "none" /\ Falsy(state.frames)
    \/ route["vision_description"] # "none" /\ Falsy(state.frame_descriptions)

ArtifactNames == {"frames", "cursor_events", "transcript",
                  "frame_descriptions", "event_timeline", "edit_plan",
                  "final_video_path"}

\* C11: failure handling removes or resets no artifact: in every step an
\* artifact that is present in the state is still there afterwards, so the
\* state returned after a failure holds every artifact produced before it.
C11_ArtifactsSurviveFailure ==
    [][\A a \in ArtifactNames :
          state[a] # "absent" => state'[a] = state[a]]_vars

\* C12: a missing mandatory artifact is an unrecoverable failure: when
\* vision_description succeeded without frame_descriptions, or
\* analysis_agent succeeded without event_timeline, script_planner and
\* render do not execute, and when the run has returned an error is
\* recorded and status is error.
C12_MandatoryArtifacts ==
    LET missing ==
          \/ /\ "vision_description" \in succeeded
             /\ Falsy(state.frame_descriptions)
          \/ /\ "analysis_agent" \in succeeded
             /\ Falsy(state.event_timeline)
    IN  (missing /\ ~raised) =>
          /\ ~Executed("script_planner")
          /\ ~Executed("render")
          /\ Returned => state.status = "error" /\ state.errors # <<>>

\* C13: once status is error it stays error: no step of a stage, a guard,
\* the output stage or the exception handler changes it to another value.
C13_ErrorIsIrreversible ==
    [][state.status = "error" => state'.status = "error"]_vars

C13_Witness ==
    /\ Returned
    /\ state.status = "error"
    /\ started["output"] = 2
    /\ "output" \in succeeded

IsPrefix(s, t) ==
    /\ Len(s) <= Len(t)
    /\ \A i \in 1..Len(s) : s[i] = t[i]

\* C14: errors and warnings are append-only: in every step the previous
\* errors is a prefix of the new errors and the previous warnings is a
\* prefix of the new warnings.
C14_AppendOnly ==
    [][/\ IsPrefix(state.errors, state'.errors)
       /\ IsPrefix(state.warnings, state'.warnings)]_vars

C14_Witness ==
    /\ Returned
    /\ raised
    /\ {"cursor_detector", "audio_agent"} \subseteq failed
    /\ Len(state.errors) = 3

MaxRows == 3

\* the ledger holds at most MaxCostRows rows in the cost-accounting runs
MaxCostRows == 4

\* CURRENT_TIMESTAMP takes the values 0 .. MaxClock
MaxClock == 2

\* retention periods 0 .. MaxDays are tried (one clock tick is one day there)
MaxDays == 1

Stages == {"A", "B"}

\* tokens_used and cost_usd of a stage; the cost is counted in half dollars
Usages == {[tokens |-> 10, cost |-> 1],
           [tokens |-> 20, cost |-> 2],
           [tokens |-> 40, cost |-> 4]}

NoUsage == [tokens |-> 0, cost |-> 0]

\* None / NULL in a time or duration column
Null == -1

NoError == "none"

\* PRAGMA foreign_keys is never issued on the connection, and SQLite leaves
\* foreign keys unenforced by default
ForeignKeysEnforced == FALSE

\* the duration as a wrong log_stage would compute it, start given or not
stage_duration_unguarded(start_time, end_time) == end_time - start_time

\* log_stage, the duration: set only when both times are given
stage_duration(start_time, end_time) ==
    IF start_time # Null /\ end_time # Null
    THEN end_time - start_time
    ELSE Null

\* log_stage, the INSERT: one new row, whatever the table holds; id and
\* created_at are the column defaults
log_stage(l, id, now, project_id, stage_name, status, start_time, end_time, usage, error_message) ==
    Append(l, [id |-> id,
               project_id |-> project_id,
               stage_name |-> stage_name,
               status |-> status,
               start_time |-> start_time,
               end_time |-> end_time,
               duration_seconds |-> stage_duration(start_time, end_time),
               tokens_used |-> usage.tokens,
               cost_usd |-> usage.cost,
               error_message |-> error_message,
               created_at |-> now])

\* the rows of one project, in insertion order
RowsOf(l, project_id) == SelectSeq(l, LAMBDA r : r.project_id = project_id)

RECURSIVE SumTokens(_)
SumTokens(rows) ==
    IF rows = <<>> THEN 0 ELSE Head(rows).tokens_used + SumTokens(Tail(rows))

RECURSIVE SumCost(_)
SumCost(rows) ==
    IF rows = <<>> THEN 0 ELSE Head(rows).cost_usd + SumCost(Tail(rows))

\* the summary as a query without its WHERE clause would compute it
get_project_cost_summary_all(l, project_id) ==
    [total_tokens |-> SumTokens(l),
     total_cost_usd |-> SumCost(l),
     breakdown |-> [s \in {l[i].stage_name : i \in DOMAIN l} |->
                      SumCost(SelectSeq(l, LAMBDA r : r.stage_name = s))]]

\* get_project_cost_summary: the GROUP BY stage_name query and the totals
\* query, both over the rows of the project
get_project_cost_summary(l, project_id) ==
    LET rows == RowsOf(l, project_id)
    IN  [total_tokens |-> SumTokens(rows),
         total_cost_usd |-> SumCost(rows),
         breakdown |-> [s \in {rows[i].stage_name : i \in DOMAIN rows} |->
                          SumCost(SelectSeq(rows,
                                            LAMBDA r : r.stage_name = s))]]

\* the results get_project_stages may return: the ids of the project's rows
\* ORDER BY created_at ASC; rows of one created_at come in any order
OrderedByCreatedAt(l, project_id) ==
    LET rows == RowsOf(l, project_id)
        n    == Len(rows)
    IN  {[i \in 1..n |-> rows[f[i]].id] :
            f \in {g \in [1..n -> 1..n] :
                     /\ \A i, j \in 1..n : i # j => g[i] # g[j]
                     /\ \A i, j \in 1..n :
                           i < j => rows[g[i]].created_at
                                      <= rows[g[j]].created_at}}

\* ON DELETE CASCADE of pipeline_stages.project_id
OnDeleteCascade(l, deleted) ==
    IF ForeignKeysEnforced
    THEN SelectSeq(l, LAMBDA r : r.project_id \notin deleted)
    ELSE l

ProjectIdsIn(ps) == {r.project_id : r \in ps}

\* one second (one day for the retention periods) passes
Tick ==
    /\ clock < MaxClock
    /\ clock' = clock + 1
    /\ stagesRead' = NoRead
    /\ result' = NoResult
    /\ UNCHANGED <<pvars, xvars, files, lastSaved, pending, projects, ledger, nextId,
                   open>>

\* log_stage(project_id, stage_name, status, ...) succeeds
LogStage(project_id, stage_name, status, start_time, end_time, usage, error_message) ==
    /\ ledger' = log_stage(ledger, nextId, clock, project_id, stage_name,
                           status, start_time, end_time, usage, error_message)
    /\ nextId' = nextId + 1
    /\ stagesRead' = NoRead

\* a stage executor logs the start of its invocation
ExecutorLogsStart ==
    /\ nextId <= MaxRows
    /\ \E p \in ProjectIds, s \in Stages :
          /\ \A o \in open : ~(o.project_id = p /\ o.stage_name = s)
          /\ LogStage(p, s, "started", clock, Null, NoUsage, NoError)
          /\ open' = open \cup {[project_id |-> p, stage_name |-> s,
                                 start_time |-> clock]}
    /\ pending' = 0
    /\ result' = NoResult
    /\ UNCHANGED <<pvars, xvars, files, lastSaved, projects, clock>>

\* a stage executor logs the end of its invocation, completed or failed
ExecutorLogsEnd ==
    /\ nextId <= MaxRows
    /\ \E o \in open :
          /\ \/ LogStage(o.project_id, o.stage_name, "completed",
                         o.start_time, clock,
                         [tokens |-> 10, cost |-> 1], NoError)
             \/ LogStage(o.project_id, o.stage_name, "failed",
                         o.start_time, clock, NoUsage, "failed")
          /\ open' = open \ {o}
    /\ pending' = 0
    /\ result' = NoResult
    /\ UNCHANGED <<pvars, xvars, files, lastSaved, projects, clock>>

\* get_project_stages(project_id) returns
GetProjectStages ==
    /\ \E p \in ProjectIds :
          \E ids \in OrderedByCreatedAt(ledger, p) :
              stagesRead' = [project |-> p, ids |-> ids]
    /\ pending' = 0
    /\ result' = NoResult
    /\ UNCHANGED <<pvars, xvars, files, lastSaved, projects, ledger, nextId, clock, open>>

LedgerNext ==
    \/ Tick
    \/ ExecutorLogsStart
    \/ ExecutorLogsEnd
    \/ GetProjectStages

\* the stage ledger under the executors' start / end logging
SpecLedger == Init /\ [][LedgerNext]_vars

\* log_stage records the usage of a completed stage
LogUsage ==
    /\ Len(ledger) < MaxCostRows
    /\ \E p \in ProjectIds, s \in Stages, u \in Usages :
          LogStage(p, s, "completed", Null, clock, u, NoError)
    /\ pending' = 0
    /\ result' = NoResult
    /\ UNCHANGED <<pvars, xvars, files, lastSaved, projects, clock, open>>

CostNext == LogUsage

\* the stage ledger under the logging of stage costs
SpecCost == Init /\ [][CostNext]_vars

\* the row Database.create_project inserts; created_at is the column default
NewProject(p, now) ==
    [project_id |-> p,
     status |-> "created",
     created_at |-> now,
     processing_start |-> Null,
     processing_end |-> Null]

\* Database.create_project inserts the project row; a second row of the
\* same project_id violates the primary key and leaves the table as it was
CreateProject ==
    /\ \E p \in ProjectIds :
          /\ p \notin ProjectIdsIn(projects)
          /\ projects' = projects \cup {NewProject(p, clock)}
    /\ stagesRead' = NoRead
    /\ pending' = 0
    /\ result' = NoResult
    /\ UNCHANGED <<pvars, xvars, files, lastSaved, ledger, nextId, clock, open>>

\* Database.delete_project deletes the project's stage rows, then its row
DeleteProject ==
    /\ \E p \in ProjectIds :
          /\ ledger' = SelectSeq(ledger, LAMBDA r : r.project_id # p)
          /\ projects' = {r \in projects : r.project_id # p}
          /\ result' = [op |-> "db_delete_project", project |-> p,
                        value |-> TRUE]
    /\ stagesRead' = NoRead
    /\ pending' = 0
    /\ UNCHANGED <<pvars, xvars, files, lastSaved, nextId, clock, open>>

\* Database.cleanup_old_records(days) deletes the project rows created
\* before now - days; the stage rows go only by the foreign key's cascade
CleanupOldRecords ==
    /\ \E days \in 0..MaxDays :
          LET old == {r \in projects : r.created_at < clock - days}
          IN  /\ projects' = projects \ old
              /\ ledger' = OnDeleteCascade(ledger, ProjectIdsIn(old))
    /\ stagesRead' = NoRead
    /\ pending' = 0
    /\ result' = NoResult
    /\ UNCHANGED <<pvars, xvars, files, lastSaved, nextId, clock, open>>

StoreNext ==
    \/ Tick
    \/ CreateProject
    \/ ExecutorLogsStart
    \/ DeleteProject
    \/ CleanupOldRecords

\* the projects table and the stage ledger under creation and deletion
SpecStore == Init /\ [][StoreNext]_vars

\* ------------------------------------------------------------------------
\* The stage ledger: claims
\* ------------------------------------------------------------------------

\* the number of ledger rows of one stage of one project
EntriesOf(l, project_id, stage_name) ==
    Len(SelectSeq(l, LAMBDA r : /\ r.project_id = project_id
                                /\ r.stage_name = stage_name))

\* the executor of an open invocation logs its end in this step
EndLogged(o) == o \in open /\ o \notin open'

\* C16: when the end of a stage invocation is logged, the stage's entry moves
\* from started to completed or failed and no second entry is written: the
\* stage has as many ledger entries after the step as before it.
C16_OneEntryPerStage ==
    [][\A o \in open :
          EndLogged(o) =>
              EntriesOf(ledger', o.project_id, o.stage_name)
                = EntriesOf(ledger, o.project_id, o.stage_name)]_vars

BreakdownOf(summary, stage_name) ==
    IF stage_name \in DOMAIN summary.breakdown
    THEN summary.breakdown[stage_name]
    ELSE 0

\* C18: the cost summary of a project counts each of the project's entries
\* once and no other entry: with an empty ledger every total is zero and the
\* breakdown is empty; logging a stage s of project p with tokens t and cost
\* c raises p's total_tokens by t, its total_cost_usd by c and its breakdown
\* of s by c, and changes nothing else in any summary; the breakdown lists a
\* stage exactly when the project has an entry of it; and the breakdown
\* values of the two stages add up to total_cost_usd.
C18_CostSummary ==
    /\ [](\A p \in ProjectIds :
            LET sm == get_project_cost_summary(ledger, p)
            IN  /\ ledger = <<>> =>
                      /\ sm.total_tokens = 0
                      /\ sm.total_cost_usd = 0
                      /\ DOMAIN sm.breakdown = {}
                /\ DOMAIN sm.breakdown =
                      {s \in Stages : EntriesOf(ledger, p, s) > 0}
                /\ BreakdownOf(sm, "A") + BreakdownOf(sm, "B")
                      = sm.total_cost_usd)
    /\ [][Len(ledger') = Len(ledger) + 1 =>
            LET r == ledger'[Len(ledger')]
            IN  \A p \in ProjectIds :
                  LET old == get_project_cost_summary(ledger, p)
                      new == get_project_cost_summary(ledger', p)
                      mine == IF p = r.project_id THEN 1 ELSE 0
                  IN  /\ new.total_tokens
                            = old.total_tokens + mine * r.tokens_used
                      /\ new.total_cost_usd
                            = old.total_cost_usd + mine * r.cost_usd
                      /\ \A s \in Stages :
                            BreakdownOf(new, s) =
                                BreakdownOf(old, s)
                                  + (IF s = r.stage_name
                                     THEN mine * r.cost_usd ELSE 0)]_vars

\* the entries (A, 1.00), (A, 2.00), (B, 0.50) of p1 and an entry of p2
C18_Witness ==
    /\ Len(ledger) = 4
    /\ \E i \in DOMAIN ledger : ledger[i].project_id = "p2"
    /\ LET sm == get_project_cost_summary(ledger, "p1")
       IN  /\ EntriesOf(ledger, "p1", "A") = 2
           /\ EntriesOf(ledger, "p1", "B") = 1
           /\ sm.total_cost_usd = 7
           /\ sm.total_tokens = 70
           /\ sm.breakdown["A"] = 6
           /\ sm.breakdown["B"] = 1

\* the ids of a project's entries in the order of their insertion
InsertionOrder(l, project_id) ==
    LET rows == RowsOf(l, project_id)
    IN  [i \in DOMAIN rows |-> rows[i].id]

\* the ledger row of an id
RowById(l, id) == CHOOSE r \in Range(l) : r.id = id

\* C19: get_project_stages returns the project's entries in the order they
\* were inserted, and that order is the order of their start times.
C19_InsertionOrder ==
    stagesRead # NoRead =>
        /\ stagesRead.ids = InsertionOrder(ledger, stagesRead.project)
        /\ \A i, j \in DOMAIN stagesRead.ids :
              i < j => RowById(ledger, stagesRead.ids[i]).start_time
                         <= RowById(ledger, stagesRead.ids[j]).start_time

\* C20: a step that deletes a project leaves no ledger entry of it.
C20_DeleteRemovesEntries ==
    [][\A r \in projects :
          r.project_id \notin ProjectIdsIn(projects') =>
              \A i \in DOMAIN ledger' :
                  ledger'[i].project_id # r.project_id]_vars

\* ------------------------------------------------------------------------
\* The checkpoint store: save_checkpoint and load_checkpoint
\* ------------------------------------------------------------------------

\* the keys of the pipeline state, in the order they are written
StateKeys ==
    <<"status", "frames", "cursor_events", "transcript", "frame_descriptions",
      "event_timeline", "edit_plan", "final_video_path", "processing_time",
      "errors", "warnings", "completed_stages">>

\* the pipeline states that are checkpointed: before the run, after an early
\* failure, after a run that skipped rendering, after a complete run
CheckpointStates ==
    {InitialState,
     [InitialState EXCEPT !.status = "error",
                          !.frames = "empty",
                          !.errors = <<MsgFrames>>,
                          !.completed_stages = <<"intake", "frame_extractor">>],
     [InitialState EXCEPT !.status = "complete",
                          !.frames = "present",
                          !.warnings = <<MsgEditPlan>>,
                          !.completed_stages = <<"intake", "output">>],
     [InitialState EXCEPT !.status = "complete",
                          !.frames = "present",
                          !.edit_plan = "present",
                          !.final_video_path = "present",
                          !.completed_stages = <<"intake", "render">>]}

\* save_json: the JSON document of a state, one (key, value) member per key
json_dumps(s) ==
    [i \in 1..Len(StateKeys) |-> <<StateKeys[i], s[StateKeys[i]]>>]

\* load_json: the dictionary of a JSON document
json_loads(doc) ==
    [k \in {doc[i][1] : i \in DOMAIN doc} |->
        doc[CHOOSE i \in DOMAIN doc : doc[i][1] = k][2]]

\* a save that never replaces an existing checkpoint file
save_checkpoint_once(fs, project_id, s) ==
    IF fs[project_id] = NoFile
    THEN [fs EXCEPT ![project_id] = json_dumps(s)]
    ELSE fs

\* a save whose file location does not depend on the project
save_checkpoint_shared(fs, project_id, s) ==
    [q \in DOMAIN fs |-> json_dumps(s)]

\* save_checkpoint: writes state/pipeline_state.json of the project's files
save_checkpoint(fs, project_id, s) ==
    [fs EXCEPT ![project_id] = json_dumps(s)]

\* load_checkpoint: reads state/pipeline_state.json of the project's files
load_checkpoint(fs, project_id) ==
    IF fs[project_id] = NoFile THEN None ELSE json_loads(fs[project_id])

\* save_checkpoint(project_id, state) returns True
SaveCheckpoint ==
    /\ \E p \in ProjectIds, s \in CheckpointStates :
          /\ files' = save_checkpoint(files, p, s)
          /\ lastSaved' = [lastSaved EXCEPT ![p] = s]
          /\ result' = [op |-> "save_checkpoint", project |-> p, value |-> TRUE]
    /\ UNCHANGED <<pvars, xvars, dvars, pending>>

\* save_checkpoint(project_id, state) returns False: the write failed
SaveCheckpointFails ==
    /\ \E p \in ProjectIds :
          result' = [op |-> "save_checkpoint", project |-> p, value |-> FALSE]
    /\ UNCHANGED <<pvars, xvars, dvars, files, lastSaved, pending>>

\* load_checkpoint(project_id) returns the state, or None without a file
LoadCheckpoint ==
    /\ \E p \in ProjectIds :
          result' = [op |-> "load_checkpoint", project |-> p,
                     value |-> load_checkpoint(files, p)]
    /\ UNCHANGED <<pvars, xvars, dvars, files, lastSaved, pending>>

\* load_checkpoint(project_id) returns None: the read failed
LoadCheckpointFails ==
    /\ \E p \in ProjectIds :
          result' = [op |-> "load_checkpoint_failed", project |-> p,
                     value |-> None]
    /\ UNCHANGED <<pvars, xvars, dvars, files, lastSaved, pending>>

CheckpointNext ==
    \/ SaveCheckpoint
    \/ SaveCheckpointFails
    \/ LoadCheckpoint
    \/ LoadCheckpointFails

\* the checkpoint store under saves and loads
SpecCheckpoint == Init /\ [][CheckpointNext]_vars

\* a load of the project's checkpoint returned in this state
Loaded(p) == result.op = "load_checkpoint" /\ result.project = p

Saves(p) ==
    /\ result'.op = "save_checkpoint"
    /\ result'.project = p
    /\ result'.value

\* C22: each project has one checkpoint slot: a load returns None for a
\* project that was never saved; right after a successful save of a project
\* its slot holds the state of that save, whatever it held before; and a
\* save of one project leaves the slot of every other project as it was.
C22_SingleSlot ==
    /\ [](\A p \in ProjectIds :
            (Loaded(p) /\ lastSaved[p] = None) => result.value = None)
    /\ [][\A p \in ProjectIds :
            Saves(p) =>
                /\ load_checkpoint(files', p) = lastSaved'[p]
                /\ \A q \in ProjectIds \ {p} :
                      load_checkpoint(files', q) = load_checkpoint(files, q)]_vars

\* p2 is loaded after p1 was saved last, and the two slots differ
C22_Witness ==
    /\ Loaded("p2")
    /\ lastSaved["p1"] # None
    /\ lastSaved["p2"] # None
    /\ lastSaved["p1"] # lastSaved["p2"]
    /\ result.value = lastSaved["p2"]
    /\ load_checkpoint(files, "p1") = lastSaved["p1"]

\* ------------------------------------------------------------------------
\* The database when the backing store fails
\* ------------------------------------------------------------------------

\* the statuses and error messages log_stage is called with
LogStatuses == {"started", "completed", "failed"}

ErrorMessages == {NoError, "boom"}

\* the statuses update_project_status is called with
ProjectStatuses == {"processing", "complete", "queued"}

\* connection.rollback(): the rows of the open transaction are discarded
rollback(l, n) == SubSeq(l, 1, Len(l) - n)

\* log_stage with any arguments: the INSERT and the commit succeed; the
\* commit also makes the rows of an open transaction durable
LogStageReturnsTrue ==
    /\ nextId <= MaxRows
    /\ \E p \in ProjectIds, st \in LogStatuses, e \in ErrorMessages :
          LogStage(p, "A", st, Null, Null, NoUsage, e)
    /\ pending' = 0
    /\ result' = [op |-> "log_stage", value |-> TRUE]
    /\ UNCHANGED <<pvars, xvars, files, lastSaved, projects, clock, open>>

\* log_stage: the INSERT raises; _get_connection rolls the transaction back
\* and re-raises, log_stage catches the exception and returns False
LogStageInsertFails ==
    /\ ledger' = rollback(ledger, pending)
    /\ nextId' = nextId - pending
    /\ pending' = 0
    /\ stagesRead' = NoRead
    /\ result' = [op |-> "log_stage", value |-> FALSE]
    /\ UNCHANGED <<pvars, xvars, files, lastSaved, projects, clock, open>>

\* log_stage: the INSERT succeeds and connection.commit() raises (the
\* database is locked); the else branch of _get_connection has no rollback,
\* the transaction stays open with the row in it, log_stage returns False
LogStageCommitFails ==
    /\ nextId <= MaxRows
    /\ \E p \in ProjectIds, st \in LogStatuses, e \in ErrorMessages :
          LogStage(p, "A", st, Null, Null, NoUsage, e)
    /\ pending' = pending + 1
    /\ result' = [op |-> "log_stage", value |-> FALSE]
    /\ UNCHANGED <<pvars, xvars, files, lastSaved, projects, clock, open>>

\* an update that sets processing_start at every update to processing
update_project_status_restart(r, st, now) ==
    [r EXCEPT !.status = st,
              !.processing_start = IF st = "processing" THEN now ELSE @,
              !.processing_end =
                  IF st \in {"complete", "error", "failed"} THEN now ELSE @]

\* update_project_status, the UPDATE statements applied to the project's
\* row: status; processing_start if the status is processing and it is
\* NULL; processing_end if the status is complete, error or failed
update_project_status(r, st, now) ==
    [r EXCEPT !.status = st,
              !.processing_start =
                  IF st = "processing" /\ @ = Null THEN now ELSE @,
              !.processing_end =
                  IF st \in {"complete", "error", "failed"} THEN now ELSE @]

\* update_project_status(project_id, status) succeeds
UpdateProjectStatus ==
    /\ \E p \in ProjectIds, st \in ProjectStatuses :
          /\ projects' = {IF r.project_id = p
                          THEN update_project_status(r, st, clock)
                          ELSE r : r \in projects}
          /\ result' = [op |-> "update_project_status", project |-> p,
                        status |-> st, value |-> TRUE]
    /\ pending' = 0
    /\ stagesRead' = NoRead
    /\ UNCHANGED <<pvars, xvars, files, lastSaved, ledger, nextId, clock, open>>

\* update_project_status: an UPDATE raises; the transaction is rolled back
\* and False is returned
UpdateProjectStatusFails ==
    /\ \E p \in ProjectIds, st \in ProjectStatuses :
          result' = [op |-> "update_project_status", project |-> p,
                     status |-> st, value |-> FALSE]
    /\ ledger' = rollback(ledger, pending)
    /\ nextId' = nextId - pending
    /\ pending' = 0
    /\ stagesRead' = NoRead
    /\ UNCHANGED <<pvars, xvars, files, lastSaved, projects, clock, open>>

\* Database.delete_project: one of the two DELETEs raises; the transaction
\* is rolled back, with the first DELETE if it has run, and False is returned
DeleteProjectFails ==
    /\ \E p \in ProjectIds :
          result' = [op |-> "db_delete_project", project |-> p,
                     value |-> FALSE]
    /\ ledger' = rollback(ledger, pending)
    /\ nextId' = nextId - pending
    /\ pending' = 0
    /\ stagesRead' = NoRead
    /\ UNCHANGED <<pvars, xvars, files, lastSaved, projects, clock, open>>

FaultsNext ==
    \/ CreateProject
    \/ UpdateProjectStatus
    \/ LogStageReturnsTrue
    \/ LogStageInsertFails
    \/ LogStageCommitFails

\* the ledger of one connection under log_stage calls that may fail
SpecFaults == Init /\ [][FaultsNext]_vars

\* log_stage returns False in this step
LogStageFailed == result'.op = "log_stage" /\ ~result'.value

\* C23: when log_stage returns False, the ledger holds no row of the failed
\* write and its entries are the ones it held before the call.
C23_FailedWriteLeavesLedger ==
    [][LogStageFailed => ledger' = ledger]_vars

\* a log_stage or update_project_status call returns in this step
WriteReturns == result'.op \in {"log_stage", "update_project_status"}

\* C24: a log_stage call and an update_project_status call leave every
\* existing ledger entry as it was, and add at most one row (exactly one when
\* log_stage returns True, none for a status update); in no step does an
\* entry disappear unless its project is deleted in that step.
C24_LedgerAppendOnly ==
    [][/\ WriteReturns =>
            /\ IsPrefix(ledger, ledger')
            /\ Len(ledger') <= Len(ledger) + 1
            /\ result'.op = "update_project_status" => ledger' = ledger
            /\ (result'.op = "log_stage" /\ result'.value)
                  => Len(ledger') = Len(ledger) + 1
       /\ \A i \in DOMAIN ledger :
            ledger[i] \notin Range(ledger') =>
                /\ ledger[i].project_id \in ProjectIdsIn(projects)
                /\ ledger[i].project_id \notin ProjectIdsIn(projects')]_vars

\* C25: no stage name is twice in completed_stages, and marking a stage
\* complete a second time changes nothing: the list has the length and the
\* content it has after the first call.
C25_CompletedOnce ==
    /\ \A i, j \in DOMAIN state.completed_stages :
          i # j => state.completed_stages[i] # state.completed_stages[j]
    /\ \A n \in Nodes :
          LET once  == mark_stage_complete(state, n)
              twice == mark_stage_complete(once, n)
          IN  /\ twice.completed_stages = once.completed_stages
              /\ n \in Range(once.completed_stages)
              /\ Len(once.completed_stages)
                    <= Len(state.completed_stages) + 1

\* the output stage has completed twice in one run
C25_Witness ==
    /\ finished["output"] = 2
    /\ "output" \in succeeded
    /\ "output" \in Range(state.completed_stages)

ListLimit == 1

\* list_projects(limit): the rows ORDER BY created_at DESC LIMIT limit; rows
\* of one created_at come in any order, so there may be several results
list_projects(ps, limit) ==
    {listed \in SUBSET ps :
        /\ Cardinality(listed) = IF Cardinality(ps) < limit
                                 THEN Cardinality(ps) ELSE limit
        /\ \A a \in listed, b \in ps \ listed : a.created_at >= b.created_at}

\* ProjectFileManager.delete_project: the project's files are removed
DeleteFiles(fs, ids) == [q \in DOMAIN fs |-> IF q \in ids THEN NoFile ELSE fs[q]]

\* ProjectManager.delete_project(p): the database deletion succeeds or fails
\* (Database.delete_project then returns False, which is not looked at), the
\* files are deleted, True is returned
ManagerDeleteProject ==
    /\ \E p \in ProjectIds :
          /\ \/ /\ ledger' = SelectSeq(ledger, LAMBDA r : r.project_id # p)
                /\ projects' = {r \in projects : r.project_id # p}
             \/ UNCHANGED <<ledger, projects>>
          /\ files' = DeleteFiles(files, {p})
          /\ dirs' = dirs \ {p}
          /\ lastSaved' = [lastSaved EXCEPT ![p] = None]
          /\ result' = [op |-> "delete_project", project |-> p, value |-> TRUE]
    /\ stagesRead' = NoRead
    /\ pending' = 0
    /\ UNCHANGED <<pvars, singleton, nextId, clock, open>>

\* ProjectManager.delete_project(p): deleting the files raises after the
\* database deletion; False is returned
ManagerDeleteProjectFails ==
    /\ \E p \in ProjectIds :
          /\ \/ /\ ledger' = SelectSeq(ledger, LAMBDA r : r.project_id # p)
                /\ projects' = {r \in projects : r.project_id # p}
             \/ UNCHANGED <<ledger, projects>>
          /\ result' = [op |-> "delete_project", project |-> p, value |-> FALSE]
    /\ stagesRead' = NoRead
    /\ pending' = 0
    /\ UNCHANGED <<pvars, xvars, files, lastSaved, nextId, clock, open>>

\* ProjectManager.cleanup_old_projects(days): of the listed projects, those
\* created before now - days go through delete_project and are counted;
\* kept are the ones whose database deletion fails
CleanupOldProjects ==
    /\ \E days \in 0..MaxDays, listed \in list_projects(projects, ListLimit) :
          LET old == {r \in listed : r.created_at < clock - days}
          IN  \E kept \in SUBSET old :
                LET gone == ProjectIdsIn(old \ kept)
                IN  /\ projects' = projects \ (old \ kept)
                    /\ ledger' = SelectSeq(ledger,
                                     LAMBDA r : r.project_id \notin gone)
                    /\ files' = DeleteFiles(files, ProjectIdsIn(old))
                    /\ dirs' = dirs \ ProjectIdsIn(old)
                    /\ lastSaved' = [q \in ProjectIds |->
                                       IF q \in ProjectIdsIn(old)
                                       THEN None ELSE lastSaved[q]]
                    /\ result' = [op |-> "cleanup_old_projects",
                                  days |-> days,
                                  value |-> Cardinality(old)]
    /\ stagesRead' = NoRead
    /\ pending' = 0
    /\ UNCHANGED <<pvars, singleton, nextId, clock, open>>

ManagerNext ==
    \/ Tick
    \/ CreateProject
    \/ ExecutorLogsStart
    \/ ManagerDeleteProject
    \/ ManagerDeleteProjectFails
    \/ CleanupOldProjects

\* the project store under the project manager's deletions
SpecManager == Init /\ [][ManagerNext]_vars

\* C27: when cleanup_old_projects(days) returns, no project created before
\* now - days is left, every other project is still there, and the count it
\* returns is the number of projects it removed.
C27_CleanupRemovesOld ==
    [][result'.op = "cleanup_old_projects" =>
          /\ \A r \in projects' : ~(r.created_at < clock - result'.days)
          /\ \A r \in projects :
                ~(r.created_at < clock - result'.days) => r \in projects'
          /\ result'.value = Cardinality(projects \ projects')]_vars

\* C28: when ProjectManager.delete_project returns True, the project has no
\* database record, no ledger entry and no files.
C28_DeleteReturnsTrueWhenDeleted ==
    (result.op = "delete_project" /\ result.value) =>
        /\ result.project \notin ProjectIdsIn(projects)
        /\ \A i \in DOMAIN ledger : ledger[i].project_id # result.project
        /\ files[result.project] = NoFile

\* ------------------------------------------------------------------------
\* The guards as functions of the pipeline state
\* ------------------------------------------------------------------------

\* the pipeline states the guards are evaluated on
GuardInputs ==
    {[InitialState EXCEPT !.status = st,
                          !.frames = f,
                          !.frame_descriptions = d,
                          !.edit_plan = e] :
        st \in {"created", "error", "complete"},
        f \in ArtifactValues, d \in ArtifactValues, e \in ArtifactValues}

\* any pipeline state, each guard about to be evaluated on it
InitGuards ==
    /\ pc = "invoke"
    /\ task = [n \in Nodes |-> IF n \in GuardedNodes THEN "guard" ELSE "none"]
    /\ triggered = {}
    /\ state \in GuardInputs
    /\ started = Zero
    /\ finished = Zero
    /\ succeeded = {}
    /\ failed = {}
    /\ raised = FALSE
    /\ errorRecorded = FALSE
    /\ route = [n \in GuardedNodes |-> "none"]
    /\ guardSawError = [n \in GuardedNodes |-> FALSE]
    /\ projects = {}
    /\ ledger = <<>>
    /\ nextId = 1
    /\ clock = 0
    /\ open = {}
    /\ stagesRead = NoRead
    /\ files = [p \in ProjectIds |-> NoFile]
    /\ lastSaved = [p \in ProjectIds |-> None]
    /\ pending = 0
    /\ result = NoResult
    /\ dirs = {}
    /\ singleton = NoDatabase

GuardsNext ==
    \/ GuardAfterParallel
    \/ GuardAfterParallelStatus
    \/ GuardAfterVision
    \/ GuardAfterVisionStatus
    \/ GuardShouldRender

\* the three guards, each evaluated once, in any order
SpecGuards == InitGuards /\ [][GuardsNext]_vars

\* the guard of node n returned output exactly when it found status == error
\* or found the artifact a absent or empty, and returned t otherwise
GuardTable(n, a, t) ==
    route[n] # "none" =>
        /\ route[n] \in {"output", t}
        /\ route[n] = "output" <=> (guardSawError[n] \/ Falsy(state[a]))

\* C29: each guard returns one of its two targets, and returns output
\* exactly when status is error or its artifact is absent or empty: frames
\* for cursor_detector (else vision_description), frame_descriptions for
\* vision_description (else analysis_agent), edit_plan for script_planner
\* (else render).
C29_GuardTable ==
    /\ GuardTable("cursor_detector", "frames", "vision_description")
    /\ GuardTable("vision_description", "frame_descriptions", "analysis_agent")
    /\ GuardTable("script_planner", "edit_plan", "render")

C29_Witness ==
    /\ route["cursor_detector"] = "vision_description"
    /\ route["vision_description"] = "output"
    /\ ~guardSawError["vision_description"]
    /\ state.frame_descriptions = "empty"
    /\ route["script_planner"] = "output"
    /\ guardSawError["script_planner"]
    /\ state.edit_plan = "present"

\* ------------------------------------------------------------------------
\* Termination
\* ------------------------------------------------------------------------

\* the run is scheduled as long as a step of it is possible
FairSpec == Spec /\ WF_vars(Next)

\* C30: every run reaches the end of the workflow, and no stage executes
\* more than once in a run.
C30_TerminatesEachStageOnce ==
    /\ <>(pc = "returned")
    /\ [](\A n \in Nodes : started[n] <= 1)

\* ------------------------------------------------------------------------
\* The guards: what they leave alone
\* ------------------------------------------------------------------------

\* the guard of node n is evaluated in this step
Evaluated(n) == task[n] = "guard" /\ task'[n] # "guard"

\* C31: a guard evaluated with status error leaves the whole state as it
\* was; should_render never changes status or errors: with edit_plan absent
\* or empty and status not error it appends one warning and changes nothing
\* else, and in every other state it changes nothing.
C31_GuardFrame ==
    [][/\ \A n \in GuardedNodes :
            (Evaluated(n) /\ state.status = "error") => state' = state
       /\ Evaluated("script_planner") =>
            /\ state'.status = state.status
            /\ state'.errors = state.errors
            /\ IF state.status # "error" /\ Falsy(state.edit_plan)
               THEN state' = [state EXCEPT
                                !.warnings = Append(@, MsgEditPlan)]
               ELSE state' = state]_vars

\* should_render has appended its warning, the vision guard has recorded
\* its error, and the cursor_detector guard was evaluated after that
C31_Witness ==
    /\ route["script_planner"] = "output"
    /\ ~guardSawError["script_planner"]
    /\ state.warnings = <<MsgEditPlan>>
    /\ route["vision_description"] = "output"
    /\ ~guardSawError["vision_description"]
    /\ route["cursor_detector"] = "output"
    /\ guardSawError["cursor_detector"]
    /\ state.errors = <<MsgVision>>
    /\ state.frames = "present"

\* ------------------------------------------------------------------------
\* The project manager: create_project
\* ------------------------------------------------------------------------

\* the dictionary create_project returns for a created project
ProjectData(p) == [project_id |-> p, status |-> "created"]

\* the project ids uuid4 may generate: the ones not in use
FreshIds == ProjectIds \ (ProjectIdsIn(projects) \cup dirs)

\* what every outcome of ProjectManager.create_project leaves alone
CreateFrame ==
    /\ stagesRead' = NoRead
    /\ pending' = 0
    /\ UNCHANGED <<pvars, singleton, files, lastSaved, ledger, nextId, clock,
                   open>>

\* create_project returns None before anything is written: the metadata
\* cannot be read, or create_structure returns False
ManagerCreateRejected ==
    /\ \E p \in FreshIds :
          result' = [op |-> "create_project", project |-> p, value |-> None]
    /\ UNCHANGED <<projects, dirs>>
    /\ CreateFrame

\* create_project returns None from its except clause: the structure is
\* created and shutil.copy2 raises
ManagerCreateCopyFails ==
    /\ \E p \in FreshIds :
          /\ dirs' = dirs \cup {p}
          /\ result' = [op |-> "create_project", project |-> p, value |-> None]
    /\ UNCHANGED projects
    /\ CreateFrame

\* create_project returns None: Database.create_project returns False and
\* the project's files are deleted again
ManagerCreateDatabaseFails ==
    /\ \E p \in FreshIds :
          result' = [op |-> "create_project", project |-> p, value |-> None]
    /\ UNCHANGED <<projects, dirs>>
    /\ CreateFrame

\* create_project returns None from its except clause: the record is
\* inserted and save_metadata raises
ManagerCreateMetadataFails ==
    /\ \E p \in FreshIds :
          /\ dirs' = dirs \cup {p}
          /\ projects' = projects \cup {NewProject(p, clock)}
          /\ result' = [op |-> "create_project", project |-> p, value |-> None]
    /\ CreateFrame

\* create_project returns the project data
ManagerCreateProject ==
    /\ \E p \in FreshIds :
          /\ dirs' = dirs \cup {p}
          /\ projects' = projects \cup {NewProject(p, clock)}
          /\ result' = [op |-> "create_project", project |-> p,
                        value |-> ProjectData(p)]
    /\ CreateFrame

CreateNext ==
    \/ Tick
    \/ ManagerCreateRejected
    \/ ManagerCreateCopyFails
    \/ ManagerCreateDatabaseFails
    \/ ManagerCreateMetadataFails
    \/ ManagerCreateProject
    \/ ManagerDeleteProject

\* the project store under the creation and deletion of projects
SpecCreate == Init /\ [][CreateNext]_vars

\* C32: when ProjectManager.create_project has returned None, the project id
\* it generated has no record in the database and no directory on disk.
C32_FailedCreateLeavesNothing ==
    (result.op = "create_project" /\ result.value = None) =>
        /\ result.project \notin ProjectIdsIn(projects)
        /\ result.project \notin dirs

\* ------------------------------------------------------------------------
\* The project records: create_project and update_project_status
\* ------------------------------------------------------------------------

\* Database.create_project with a project_id that is stored already: the
\* INSERT violates the primary key, the transaction is rolled back, False
\* is returned
CreateProjectDuplicate ==
    /\ \E p \in ProjectIdsIn(projects) :
          result' = [op |-> "db_create_project", project |-> p,
                     value |-> FALSE]
    /\ pending' = 0
    /\ stagesRead' = NoRead
    /\ UNCHANGED <<pvars, xvars, files, lastSaved, projects, ledger, nextId,
                   clock, open>>

ProjectsNext ==
    \/ Tick
    \/ CreateProject
    \/ CreateProjectDuplicate
    \/ UpdateProjectStatus

\* the project records under creations and status updates
SpecProjects == Init /\ [][ProjectsNext]_vars

\* the record of a project, when it has one
RecordOf(ps, p) == CHOOSE r \in ps : r.project_id = p

\* update_project_status(p, st) returns in this step
Updates(p, st) ==
    /\ result'.op = "update_project_status"
    /\ result'.project = p
    /\ result'.status = st

\* C34: a stored project keeps its record, its project_id and created_at in
\* every step; processing_start changes only from unset to the time of an
\* update to processing, and that update sets it when it is unset;
\* processing_end changes only in an update to complete, error or failed; a
\* create_project call for a stored project_id returns False and leaves the
\* project table as it was.
C34_ProjectTimestamps ==
    [][/\ \A p \in ProjectIdsIn(projects) :
            /\ p \in ProjectIdsIn(projects')
            /\ Cardinality({r \in projects' : r.project_id = p}) = 1
            /\ LET old == RecordOf(projects, p)
                   new == RecordOf(projects', p)
               IN  /\ new.created_at = old.created_at
                   /\ old.processing_start # Null
                         => new.processing_start = old.processing_start
                   /\ new.processing_start # old.processing_start
                         => /\ Updates(p, "processing")
                            /\ new.processing_start = clock
                   /\ (Updates(p, "processing") /\ old.processing_start = Null)
                         => new.processing_start = clock
                   /\ new.processing_end # old.processing_end
                         => \E st \in {"complete", "error", "failed"} :
                               Updates(p, st)
       /\ (result'.op = "db_create_project" /\ ~result'.value)
            => projects' = projects]_vars

\* a project set to processing again, later than its first processing start
C34_Witness ==
    /\ result.op = "update_project_status"
    /\ result.status = "processing"
    /\ \E r \in projects :
          /\ r.project_id = result.project
          /\ r.status = "processing"
          /\ r.processing_start = 0
          /\ r.processing_end = 1
          /\ clock = 2

\* ------------------------------------------------------------------------
\* The database operations as transactions
\* ------------------------------------------------------------------------

AtomicNext ==
    \/ CreateProject
    \/ CreateProjectDuplicate
    \/ UpdateProjectStatusFails
    \/ DeleteProject
    \/ DeleteProjectFails
    \/ LogStageReturnsTrue
    \/ LogStageInsertFails
    \/ LogStageCommitFails

SpecAtomic == Init /\ [][AtomicNext]_vars

\* a Database operation returns its failure value in this step
OperationFailed ==
    /\ result'.op \in {"log_stage", "update_project_status",
                       "db_create_project", "db_delete_project"}
    /\ ~result'.value

\* C33: when a Database operation returns its failure value, the project
\* table and the ledger are what they were before the call; and a
\* delete_project call removes the project's record and its ledger entries
\* together or removes neither.
C33_AllOrNothing ==
    [][/\ OperationFailed => (projects' = projects /\ ledger' = ledger)
       /\ result'.op = "db_delete_project" =>
            LET p == result'.project
                recordGone == p \notin ProjectIdsIn(projects')
                entriesGone == \A i \in DOMAIN ledger' :
                                   ledger'[i].project_id # p
                hadRecord == p \in ProjectIdsIn(projects)
                hadEntries == \E i \in DOMAIN ledger :
                                  ledger[i].project_id = p
            IN  \/ recordGone /\ entriesGone
                \/ /\ recordGone <=> ~hadRecord
                   /\ entriesGone <=> ~hadEntries]_vars

\* ------------------------------------------------------------------------
\* Database(): __new__ and __init__ run by concurrent threads
\* ------------------------------------------------------------------------

SingletonFrame == UNCHANGED <<pvars, dvars, svars, dirs>>

\* a thread moves to the next statement of the constructor
Goto(th, label) == [singleton EXCEPT !.at[th] = label]

\* __new__: the first test of cls._instance, made without the lock
NewCheck(th) ==
    /\ singleton.at[th] = "idle"
    /\ singleton' =
          IF singleton.instance = 0
          THEN Goto(th, "lock")
          ELSE [singleton EXCEPT !.at[th] = "init_check",
                                 !.got[th] = singleton.instance]
    /\ SingletonFrame

\* __new__: with cls._lock
NewLock(th) ==
    /\ singleton.at[th] = "lock"
    /\ singleton.lock = "free"
    /\ singleton' = [singleton EXCEPT !.at[th] = "second_check",
                                      !.lock = th]
    /\ SingletonFrame

\* __new__: the second test, under the lock, and the creation of the
\* instance
NewCreate(th) ==
    /\ singleton.at[th] = "second_check"
    /\ singleton' =
          [singleton EXCEPT !.at[th] = "release",
                            !.instance = IF @ = 0 THEN 1 ELSE @]
    /\ SingletonFrame

\* __new__: the lock is released and cls._instance is returned
NewReturn(th) ==
    /\ singleton.at[th] = "release"
    /\ singleton' = [singleton EXCEPT !.at[th] = "init_check",
                                      !.lock = "free",
                                      !.got[th] = singleton.instance]
    /\ SingletonFrame

\* __init__: if not hasattr(self, 'initialized'), made without the lock
InitCheck(th) ==
    /\ singleton.at[th] = "init_check"
    /\ singleton' =
          IF singleton.initialized
          THEN Goto(th, "done")
          ELSE [singleton EXCEPT !.at[th] = "db_path",
                                 !.inits = @ + 1]
    /\ SingletonFrame

\* __init__: self.db_path is set and its parent directory made
InitPath(th) ==
    /\ singleton.at[th] = "db_path"
    /\ singleton' = Goto(th, "local")
    /\ SingletonFrame

\* __init__: self._local = threading.local(), a new holder
InitLocal(th) ==
    /\ singleton.at[th] = "local"
    /\ singleton' = [singleton EXCEPT !.at[th] = "initialized",
                                      !.local = @ + 1]
    /\ SingletonFrame

\* __init__: self.initialized = True
InitInitialized(th) ==
    /\ singleton.at[th] = "initialized"
    /\ singleton' = [singleton EXCEPT !.at[th] = "create_tables",
                                      !.initialized = TRUE]
    /\ SingletonFrame

\* __init__: _create_tables(), whose _get_connection opens the thread's
\* connection on the holder self._local names now, unless the thread has
\* one there
InitCreateTables(th) ==
    /\ singleton.at[th] = "create_tables"
    /\ singleton' = [singleton EXCEPT !.at[th] = "done",
                                      !.connection[th] = singleton.local]
    /\ SingletonFrame

SingletonNext ==
    \E th \in Threads :
        \/ NewCheck(th)
        \/ NewLock(th)
        \/ NewCreate(th)
        \/ NewReturn(th)
        \/ InitCheck(th)
        \/ InitPath(th)
        \/ InitLocal(th)
        \/ InitInitialized(th)
        \/ InitCreateTables(th)

SpecSingleton == Init /\ [][SingletonNext]_vars

====
